---- MODULE Spec2Model ----
(***************************************************************************)
(* TSSC adaptive symbol coder of sttp/transport/tssc/TsscPointMetadata.go. *)
(* An encoder-side and a decoder-side pointMetadata are connected by a bit *)
(* stream: the encoder's WriteCode appends the bits of one symbol, the     *)
(* decoder's ReadCode consumes the bits of one symbol.                     *)
(*                                                                         *)
(*   Spec       both sides from newPointMetadata, a stream of three codes, *)
(*              several symbols in flight, past the first adaptation       *)
(*   SpecLong   both sides from newPointMetadata in lockstep over the      *)
(*              stream of a constant point, into the steady state          *)
(*   SpecAdapt  the symbol that adapts, for windows over a wide alphabet   *)
(*              at each of the three thresholds                            *)
(***************************************************************************)
EXTENDS Integers, Sequences, FiniteSets, TLC

(***************************************************************************)
(* Program constants                                                       *)
(***************************************************************************)
\* len(pm.commandStats): the size of the symbol alphabet
NumCodeWords == 32
\* commandStats entries are bytes
ByteMod == 256
\* codeWords.TimeDelta1Forward
TimeDelta1Forward == 8
\* codeWords.Value1 / Value2 / Value3
Value1 == 20
Value2 == 21
Value3 == 22
\* thresholds of updatedCodeStatistics
Threshold0 == 5
Threshold1 == 20
Threshold2 == 100
\* math.MaxInt32
MaxInt32 == 2147483647

CodeWords == 0 .. (NumCodeWords - 1)

(***************************************************************************)
(* Bounds of the model                                                     *)
(***************************************************************************)
\* symbols the encoder of Spec codes before the model stops
MaxSymbols == 12
\* symbols written by the encoder and not yet read by the decoder
MaxInFlight == 2

\* symbols the encoder of SpecLong codes before the model stops
MaxLongSymbols == 235

\* number of distinct codes the windows of SpecAdapt draw from
NumWideCodes == 6
\* occurrences in a window of SpecAdapt of a code other than the first two
MaxMinorCount == 2

\* the codes are taken from this list, in this order
CodePool == <<20, 8, 21, 0, 22, 17, 1, 31, 2, 19, 23, 12>>
PoolCodes(k) == { CodePool[i] : i \in 1 .. k }
\* the codes of the symbol stream of Spec
Codes == { Value1, TimeDelta1Forward, Value2 }
\* the codes of the windows of SpecAdapt
WideCodes == PoolCodes(NumWideCodes)
\* the two symbols of the steady stream of a constant point
LongCodes == { TimeDelta1Forward, Value1 }

(***************************************************************************)
(* Bit stream primitives (writeBits, readBit, readBits5 of the BitStream)  *)
(***************************************************************************)
Pow2(n) == 2 ^ n

\* writeBits(value, n): the low n bits of value, most significant first
writeBits(value, n) == [ i \in 1 .. n |-> (value \div Pow2(n - i)) % 2 ]

\* readBit(): the next bit of the stream; ok is FALSE when the stream is exhausted
readBit(s) ==
    IF s = << >>
    THEN [ val |-> 0, rest |-> << >>, ok |-> FALSE ]
    ELSE [ val |-> Head(s), rest |-> Tail(s), ok |-> TRUE ]

\* readBits5(): the next 5 bits of the stream as an integer 0..31
readBits5(s) ==
    IF Len(s) < 5
    THEN [ val |-> 0, rest |-> << >>, ok |-> FALSE ]
    ELSE [ val |-> 16 * s[1] + 8 * s[2] + 4 * s[3] + 2 * s[4] + s[5],
           rest |-> SubSeq(s, 6, Len(s)), ok |-> TRUE ]

(***************************************************************************)
(* pointMetadata                                                           *)
(***************************************************************************)
\* Variant of newPointMetadata: the first two hot slots of mode 4 are
\* swapped.
newPointMetadataSwapped ==
    [ PrevNextPointID1 |-> 0,
      PrevStateFlags1  |-> 0,
      PrevStateFlags2  |-> 0,
      PrevValue1       |-> 0,
      PrevValue2       |-> 0,
      PrevValue3       |-> 0,
      commandStats                |-> [ i \in CodeWords |-> 0 ],
      commandsSentSinceLastChange |-> 0,
      mode        |-> 4,
      mode21      |-> 0,
      mode31      |-> 0,
      mode301     |-> 0,
      mode41      |-> Value2,
      mode401     |-> Value1,
      mode4001    |-> Value3,
      startupMode |-> 0,
      adaptCalls  |-> 0,
      panic       |-> "" ]

\* Variant of newPointMetadata: the third hot slot of mode 4 holds 32.
newPointMetadataWide ==
    [ PrevNextPointID1 |-> 0,
      PrevStateFlags1  |-> 0,
      PrevStateFlags2  |-> 0,
      PrevValue1       |-> 0,
      PrevValue2       |-> 0,
      PrevValue3       |-> 0,
      commandStats                |-> [ i \in CodeWords |-> 0 ],
      commandsSentSinceLastChange |-> 0,
      mode        |-> 4,
      mode21      |-> 0,
      mode31      |-> 0,
      mode301     |-> 0,
      mode41      |-> Value1,
      mode401     |-> Value2,
      mode4001    |-> Value3 + 10,
      startupMode |-> 0,
      adaptCalls  |-> 0,
      panic       |-> "" ]

\* The fields of the struct, but for the three functions of the BitStream;
\* the six Prev fields are left at their zero value.  Two history fields are
\* added: adaptCalls counts the calls of adaptCommands, panic holds the
\* message of a panic ("" while none was raised).
newPointMetadata ==
    [ PrevNextPointID1 |-> 0,
      PrevStateFlags1  |-> 0,
      PrevStateFlags2  |-> 0,
      PrevValue1       |-> 0,
      PrevValue2       |-> 0,
      PrevValue3       |-> 0,
      commandStats                |-> [ i \in CodeWords |-> 0 ],
      commandsSentSinceLastChange |-> 0,
      mode        |-> 4,
      mode21      |-> 0,
      mode31      |-> 0,
      mode301     |-> 0,
      mode41      |-> Value1,
      mode401     |-> Value2,
      mode4001    |-> Value3,
      startupMode |-> 0,
      adaptCalls  |-> 0,
      panic       |-> "" ]

min(lv, rv) ==
    IF lv < rv THEN lv
    ELSE IF rv < lv THEN rv
    ELSE lv

\* Variant of scanStep: the first comparison against count1 is >= instead
\* of >.
scanStepLate(t, i, count) ==
    LET u == [ t EXCEPT !.total = t.total + count ]
    IN  IF count > t.count3
        THEN IF count >= t.count1
             THEN [ u EXCEPT !.code3 = t.code2, !.count3 = t.count2,
                             !.code2 = t.code1, !.count2 = t.count1,
                             !.code1 = i % ByteMod, !.count1 = count ]
             ELSE IF count > t.count2
             THEN [ u EXCEPT !.code3 = t.code2, !.count3 = t.count2,
                             !.code2 = i % ByteMod, !.count2 = count ]
             ELSE [ u EXCEPT !.code3 = i % ByteMod, !.count3 = count ]
        ELSE u

\* One iteration of the scan loop of adaptCommands for histogram index i with
\* count: the running top three (code1,count1) .. (code3,count3) and total.
scanStep(t, i, count) ==
    LET u == [ t EXCEPT !.total = t.total + count ]
    IN  IF count > t.count3
        THEN IF count > t.count1
             THEN [ u EXCEPT !.code3 = t.code2, !.count3 = t.count2,
                             !.code2 = t.code1, !.count2 = t.count1,
                             !.code1 = i % ByteMod, !.count1 = count ]
             ELSE IF count > t.count2
             THEN [ u EXCEPT !.code3 = t.code2, !.count3 = t.count2,
                             !.code2 = i % ByteMod, !.count2 = count ]
             ELSE [ u EXCEPT !.code3 = i % ByteMod, !.count3 = count ]
        ELSE u

\* The iterations lo .. hi of the scan loop, in this order, from the running
\* top three t: the lower half of them, then the upper half.  The total never
\* decreases; comparing it makes the lower half be evaluated before the upper
\* half is entered, which keeps the evaluation shallow.
RECURSIVE scanFrom(_, _, _, _)
scanFrom(stats, lo, hi, t) ==
    IF lo > hi THEN t
    ELSE IF lo = hi THEN scanStep(t, lo, stats[lo])
    ELSE LET mid   == (lo + hi) \div 2
             lower == scanFrom(stats, lo, mid, t)
         IN  IF lower.total >= t.total
             THEN scanFrom(stats, mid + 1, hi, lower)
             ELSE lower

\* The scan loop of adaptCommands over the whole histogram.
scanStats(stats) ==
    scanFrom(stats, 0, NumCodeWords - 1,
             [ code1 |-> 0, count1 |-> 0,
               code2 |-> 1, count2 |-> 0,
               code3 |-> 2, count3 |-> 0,
               total |-> 0 ])

mode1Size(t) == t.total * 5
mode2Size(t) == t.count1 * 1 + (t.total - t.count1) * 6
\* Variant of mode3Size: the second hot slot is charged 3 bits.
mode3SizeHeavy(t) == t.count1 * 1 + t.count2 * 3 + (t.total - t.count1 - t.count2) * 7
mode3Size(t) == t.count1 * 1 + t.count2 * 2 + (t.total - t.count1 - t.count2) * 7
mode4Size(t) == t.count1 * 1 + t.count2 * 2 + t.count3 * 3
                + (t.total - t.count1 - t.count2 - t.count3) * 8

\* Variant of minSize: the running minimum starts at 20 instead of the
\* largest int32.
minSizeFrom20(t) ==
    min(min(min(min(20, mode1Size(t)), mode2Size(t)), mode3Size(t)), mode4Size(t))

minSize(t) ==
    min(min(min(min(MaxInt32, mode1Size(t)), mode2Size(t)), mode3Size(t)), mode4Size(t))

\* Variant of selectMode: the sizes are compared from mode 4 down to mode 1.
selectModeHighFirst(pm, t) ==
    IF minSize(t) = mode4Size(t)
    THEN [ pm EXCEPT !.mode = 4, !.mode41 = t.code1, !.mode401 = t.code2,
                     !.mode4001 = t.code3,
                     !.commandsSentSinceLastChange = 0 ]
    ELSE IF minSize(t) = mode3Size(t)
    THEN [ pm EXCEPT !.mode = 3, !.mode31 = t.code1, !.mode301 = t.code2,
                     !.commandsSentSinceLastChange = 0 ]
    ELSE IF minSize(t) = mode2Size(t)
    THEN [ pm EXCEPT !.mode = 2, !.mode21 = t.code1,
                     !.commandsSentSinceLastChange = 0 ]
    ELSE IF minSize(t) = mode1Size(t)
    THEN [ pm EXCEPT !.mode = 1, !.commandsSentSinceLastChange = 0 ]
    ELSE [ pm EXCEPT !.panic = "Coding Error" ]

\* The mode selection of adaptCommands, applied to a state whose histogram
\* the scan loop has already zeroed.
selectMode(pm, t) ==
    IF minSize(t) = mode1Size(t)
    THEN [ pm EXCEPT !.mode = 1, !.commandsSentSinceLastChange = 0 ]
    ELSE IF minSize(t) = mode2Size(t)
    THEN [ pm EXCEPT !.mode = 2, !.mode21 = t.code1,
                     !.commandsSentSinceLastChange = 0 ]
    ELSE IF minSize(t) = mode3Size(t)
    THEN [ pm EXCEPT !.mode = 3, !.mode31 = t.code1, !.mode301 = t.code2,
                     !.commandsSentSinceLastChange = 0 ]
    ELSE IF minSize(t) = mode4Size(t)
    THEN [ pm EXCEPT !.mode = 4, !.mode41 = t.code1, !.mode401 = t.code2,
                     !.mode4001 = t.code3,
                     !.commandsSentSinceLastChange = 0 ]
    ELSE [ pm EXCEPT !.panic = "Coding Error" ]

\* Variant of adaptCommands: the scan loop leaves the histogram as it is.
adaptCommandsKeeps(pm) ==
    selectMode([ pm EXCEPT !.adaptCalls = @ + 1 ], scanStats(pm.commandStats))

\* Variant of adaptCommands: the value slots are cleared with the histogram.
adaptCommandsForgets(pm) ==
    selectMode([ pm EXCEPT !.commandStats = [ i \in CodeWords |-> 0 ],
                           !.PrevValue1 = 0, !.PrevValue2 = 0,
                           !.PrevValue3 = 0,
                           !.adaptCalls = @ + 1 ],
               scanStats(pm.commandStats))

adaptCommands(pm) ==
    selectMode([ pm EXCEPT !.commandStats = [ i \in CodeWords |-> 0 ],
                           !.adaptCalls = @ + 1 ],
               scanStats(pm.commandStats))

\* Variant of countCode: the histogram is not bumped.
countCodeOnly(pm, code) ==
    [ pm EXCEPT !.commandsSentSinceLastChange = @ + 1 ]

\* The two increments that open updatedCodeStatistics.
countCode(pm, code) ==
    [ pm EXCEPT !.commandsSentSinceLastChange = @ + 1,
                !.commandStats[code] = (@ + 1) % ByteMod ]

\* Variants of updatedCodeStatistics, each with one slip.
\* the third branch lowers startupMode
updatedCodeStatisticsLowers(pm, code) ==
    LET c == countCode(pm, code)
    IN  IF c.startupMode = 0 /\ c.commandsSentSinceLastChange > Threshold0
        THEN adaptCommands([ c EXCEPT !.startupMode = @ + 1 ])
        ELSE IF c.startupMode = 1 /\ c.commandsSentSinceLastChange > Threshold1
        THEN adaptCommands([ c EXCEPT !.startupMode = @ + 1 ])
        ELSE IF c.startupMode = 2 /\ c.commandsSentSinceLastChange > Threshold2
        THEN adaptCommands([ c EXCEPT !.startupMode = @ - 1 ])
        ELSE c

\* the third branch bumps startupMode as the first two do
updatedCodeStatisticsBumps(pm, code) ==
    LET c == countCode(pm, code)
    IN  IF c.startupMode = 0 /\ c.commandsSentSinceLastChange > Threshold0
        THEN adaptCommands([ c EXCEPT !.startupMode = @ + 1 ])
        ELSE IF c.startupMode = 1 /\ c.commandsSentSinceLastChange > Threshold1
        THEN adaptCommands([ c EXCEPT !.startupMode = @ + 1 ])
        ELSE IF c.startupMode = 2 /\ c.commandsSentSinceLastChange > Threshold2
        THEN adaptCommands([ c EXCEPT !.startupMode = @ + 1 ])
        ELSE c

\* the second threshold is compared with >= instead of >
updatedCodeStatisticsEarly1(pm, code) ==
    LET c == countCode(pm, code)
    IN  IF c.startupMode = 0 /\ c.commandsSentSinceLastChange > Threshold0
        THEN adaptCommands([ c EXCEPT !.startupMode = @ + 1 ])
        ELSE IF c.startupMode = 1 /\ c.commandsSentSinceLastChange >= Threshold1
        THEN adaptCommands([ c EXCEPT !.startupMode = @ + 1 ])
        ELSE IF c.startupMode = 2 /\ c.commandsSentSinceLastChange > Threshold2
        THEN adaptCommands(c)
        ELSE c

\* the third threshold is compared with >= instead of >
updatedCodeStatisticsEarly2(pm, code) ==
    LET c == countCode(pm, code)
    IN  IF c.startupMode = 0 /\ c.commandsSentSinceLastChange > Threshold0
        THEN adaptCommands([ c EXCEPT !.startupMode = @ + 1 ])
        ELSE IF c.startupMode = 1 /\ c.commandsSentSinceLastChange > Threshold1
        THEN adaptCommands([ c EXCEPT !.startupMode = @ + 1 ])
        ELSE IF c.startupMode = 2 /\ c.commandsSentSinceLastChange >= Threshold2
        THEN adaptCommands(c)
        ELSE c

updatedCodeStatistics(pm, code) ==
    LET c == countCode(pm, code)
    IN  IF c.startupMode = 0 /\ c.commandsSentSinceLastChange > Threshold0
        THEN adaptCommands([ c EXCEPT !.startupMode = @ + 1 ])
        ELSE IF c.startupMode = 1 /\ c.commandsSentSinceLastChange > Threshold1
        THEN adaptCommands([ c EXCEPT !.startupMode = @ + 1 ])
        ELSE IF c.startupMode = 2 /\ c.commandsSentSinceLastChange > Threshold2
        THEN adaptCommands(c)
        ELSE c

\* Variant of WriteCodeBits: mode 3 writes a symbol outside the hot slots in
\* 6 bits instead of 7.
WriteCodeBitsShort(pm, code) ==
    CASE pm.mode = 1 -> writeBits(code, 5)
      [] pm.mode = 2 -> IF code = pm.mode21 THEN writeBits(1, 1)
                        ELSE writeBits(code, 6)
      [] pm.mode = 3 -> IF code = pm.mode31 THEN writeBits(1, 1)
                        ELSE IF code = pm.mode301 THEN writeBits(1, 2)
                        ELSE writeBits(code, 6)
      [] pm.mode = 4 -> IF code = pm.mode41 THEN writeBits(1, 1)
                        ELSE IF code = pm.mode401 THEN writeBits(1, 2)
                        ELSE IF code = pm.mode4001 THEN writeBits(1, 3)
                        ELSE writeBits(code, 8)
      [] OTHER -> << >>

\* Variant of WriteCodeBits: mode 4 spells its third hot slot 011 instead of
\* 001.
WriteCodeBitsThird(pm, code) ==
    CASE pm.mode = 1 -> writeBits(code, 5)
      [] pm.mode = 2 -> IF code = pm.mode21 THEN writeBits(1, 1)
                        ELSE writeBits(code, 6)
      [] pm.mode = 3 -> IF code = pm.mode31 THEN writeBits(1, 1)
                        ELSE IF code = pm.mode301 THEN writeBits(1, 2)
                        ELSE writeBits(code, 7)
      [] pm.mode = 4 -> IF code = pm.mode41 THEN writeBits(1, 1)
                        ELSE IF code = pm.mode401 THEN writeBits(1, 2)
                        ELSE IF code = pm.mode4001 THEN writeBits(3, 3)
                        ELSE writeBits(code, 8)
      [] OTHER -> << >>

\* The bits the switch of WriteCode hands to writeBits.
WriteCodeBits(pm, code) ==
    CASE pm.mode = 1 -> writeBits(code, 5)
      [] pm.mode = 2 -> IF code = pm.mode21 THEN writeBits(1, 1)
                        ELSE writeBits(code, 6)
      [] pm.mode = 3 -> IF code = pm.mode31 THEN writeBits(1, 1)
                        ELSE IF code = pm.mode301 THEN writeBits(1, 2)
                        ELSE writeBits(code, 7)
      [] pm.mode = 4 -> IF code = pm.mode41 THEN writeBits(1, 1)
                        ELSE IF code = pm.mode401 THEN writeBits(1, 2)
                        ELSE IF code = pm.mode4001 THEN writeBits(1, 3)
                        ELSE writeBits(code, 8)
      [] OTHER -> << >>

\* WriteCode: the state of pm after the call.
WriteCode(pm, code) ==
    IF pm.mode \in 1 .. 4
    THEN updatedCodeStatistics(pm, code)
    ELSE [ pm EXCEPT !.panic = "Coding Error" ]

\* Variant of ReadCodeBits: in mode 4 the prefix 01 yields mode41 instead of
\* mode401.
ReadCodeBitsSwapped(pm, s) ==
    LET b1 == readBit(s)
        b2 == readBit(b1.rest)
        b3 == readBit(b2.rest)
    IN  CASE pm.mode = 1 -> readBits5(s)
          [] pm.mode = 2 ->
               IF b1.val = 1 THEN [ b1 EXCEPT !.val = pm.mode21 ]
               ELSE readBits5(b1.rest)
          [] pm.mode = 3 ->
               IF b1.val = 1 THEN [ b1 EXCEPT !.val = pm.mode31 ]
               ELSE IF b2.val = 1 THEN [ b2 EXCEPT !.val = pm.mode301 ]
               ELSE readBits5(b2.rest)
          [] pm.mode = 4 ->
               IF b1.val = 1 THEN [ b1 EXCEPT !.val = pm.mode41 ]
               ELSE IF b2.val = 1 THEN [ b2 EXCEPT !.val = pm.mode41 ]
               ELSE IF b3.val = 1 THEN [ b3 EXCEPT !.val = pm.mode4001 ]
               ELSE readBits5(b3.rest)
          [] OTHER -> [ val |-> 0, rest |-> s, ok |-> FALSE ]

\* The switch of ReadCode: the code it decodes from the stream s, the rest
\* of the stream and whether the stream held enough bits.
ReadCodeBits(pm, s) ==
    LET b1 == readBit(s)
        b2 == readBit(b1.rest)
        b3 == readBit(b2.rest)
    IN  CASE pm.mode = 1 -> readBits5(s)
          [] pm.mode = 2 ->
               IF b1.val = 1 THEN [ b1 EXCEPT !.val = pm.mode21 ]
               ELSE readBits5(b1.rest)
          [] pm.mode = 3 ->
               IF b1.val = 1 THEN [ b1 EXCEPT !.val = pm.mode31 ]
               ELSE IF b2.val = 1 THEN [ b2 EXCEPT !.val = pm.mode301 ]
               ELSE readBits5(b2.rest)
          [] pm.mode = 4 ->
               IF b1.val = 1 THEN [ b1 EXCEPT !.val = pm.mode41 ]
               ELSE IF b2.val = 1 THEN [ b2 EXCEPT !.val = pm.mode401 ]
               ELSE IF b3.val = 1 THEN [ b3 EXCEPT !.val = pm.mode4001 ]
               ELSE readBits5(b3.rest)
          [] OTHER -> [ val |-> 0, rest |-> s, ok |-> FALSE ]

\* ReadCode: the state of pm after the call.  A read past the end of the
\* stream is the BufferExhausted failure of the BitStream.
ReadCode(pm, s) ==
    IF pm.mode \notin 1 .. 4
    THEN [ pm EXCEPT !.panic = "Unsupported compression mode" ]
    ELSE IF ~ ReadCodeBits(pm, s).ok
    THEN [ pm EXCEPT !.panic = "BufferExhausted" ]
    ELSE updatedCodeStatistics(pm, ReadCodeBits(pm, s).val)

(***************************************************************************)
(* State                                                                   *)
(***************************************************************************)
VARIABLES
    enc,      \* the encoder-side pointMetadata
    dec,      \* the decoder-side pointMetadata
    stream,   \* bits written by the encoder and not yet read by the decoder
    pending,  \* history: per symbol in flight, its code, its bit count and
              \* the encoder's state right after it was written
    encHist,  \* history of the encoder's calls
    decHist,  \* history of the decoder's calls
    lastRead, \* history: what the last ReadCode returned and consumed
    hs,       \* a guid.HashSet: the set of the keys of the map
    call,     \* history: the last call on hs, its arguments, the set before
              \* it and what it returned
    row,      \* a metadata.DataRow: the columns of its parent and its values
    got,      \* history: the last call on row, its arguments, the row
              \* before it and what it returned
    ticks,    \* a ticks.Ticks value: 64 bits, as four 16-bit limbs
    conv,     \* history: the last call on ticks, the value before it and
              \* what it returned
    points,   \* the pointMetadata of each point of one side of a connection
    touched   \* history: the last call on a pointMetadata of points, the
              \* point it was made on and points before it

vars ==
    << enc, dec, stream, pending, encHist, decHist, lastRead, hs, call,
       row, got, ticks, conv, points, touched >>

tickVars == << ticks, conv >>

pointVars == << points, touched >>

coderVars == << enc, dec, stream, pending, encHist, decHist, lastRead >>

setVars == << hs, call >>

rowVars == << row, got >>

\* No call on the HashSet yet.
NoCall ==
    [ op |-> "", before |-> {}, item |-> 0, other |-> << >>, pred |-> {},
      ret |-> FALSE, count |-> 0 ]

\* The HashSet while another part of the program runs: empty and untouched.
IdleSet ==
    /\ hs = {}
    /\ call = NoCall

\* The nil interface value, and a value of dynamic type string or int32.
Nil == [ type |-> "nil", s |-> "", i |-> 0 ]

StringOf(str) == [ type |-> "String", s |-> str, i |-> 0 ]

Int32Of(n) == [ type |-> "Int32", s |-> "", i |-> n ]

\* What a call on a DataRow yields: the value and the error it returns, or
\* the panic it raises ("" stands for a nil error and for no panic).
NoResult == [ value |-> Nil, err |-> "", panic |-> "" ]

\* No call on the DataRow yet.
NoGot ==
    [ op |-> "", index |-> 0, name |-> "", arg |-> Nil,
      before |-> [ columns |-> << >>, values |-> << >> ],
      value |-> Nil, err |-> "", panic |-> "" ]

\* The DataRow while another part of the program runs: a row of no columns.
IdleRow ==
    /\ row = [ columns |-> << >>, values |-> << >> ]
    /\ got = NoGot

ZeroStats == [ i \in CodeWords |-> 0 ]

\* History of one coder: n symbols coded, since of them after the last
\* adaptation; for the last symbol coded: its code, the calls of
\* adaptCommands it made, whether it made one (adapted), the histogram
\* adaptCommands received (statsIn), and startupMode and
\* commandsSentSinceLastChange before the call; gap is the number of symbols
\* from the previous adaptation up to and including the last adapting one.
NoHist ==
    [ n |-> 0, since |-> 0, calls |-> 0, adapted |-> FALSE, gap |-> 0,
      statsIn |-> ZeroStats, prevStartup |-> 0, prevCount |-> 0, code |-> 0 ]

\* The history after a call that coded code and took the coder from pm to pm2.
Observe(h, pm, code, pm2) ==
    LET ran == pm2.adaptCalls # pm.adaptCalls
    IN  [ n           |-> h.n + 1,
          since       |-> IF ran THEN 0 ELSE h.since + 1,
          calls       |-> pm2.adaptCalls - pm.adaptCalls,
          adapted     |-> ran,
          gap         |-> IF ran THEN h.since + 1 ELSE h.gap,
          statsIn     |-> IF ran THEN countCode(pm, code).commandStats ELSE ZeroStats,
          prevStartup |-> pm.startupMode,
          prevCount   |-> pm.commandsSentSinceLastChange,
          code        |-> code ]

\* History of the last ReadCode: the code it returned and the bits it
\* consumed, the code and the bits of the WriteCode it answers, and the
\* encoder's state right after that WriteCode.
NoRead ==
    [ code |-> 0, bits |-> 0, sent |-> 0, sentBits |-> 0, n |-> 0,
      encAfter |-> newPointMetadata ]

\* The state of the system as one record, and the state it is in or moves to.
Sys ==
    [ enc |-> enc, dec |-> dec, stream |-> stream, pending |-> pending,
      encHist |-> encHist, decHist |-> decHist, lastRead |-> lastRead ]

Is(st) ==
    /\ enc = st.enc
    /\ dec = st.dec
    /\ stream = st.stream
    /\ pending = st.pending
    /\ encHist = st.encHist
    /\ decHist = st.decHist
    /\ lastRead = st.lastRead

Becomes(st) ==
    /\ enc' = st.enc
    /\ dec' = st.dec
    /\ stream' = st.stream
    /\ pending' = st.pending
    /\ encHist' = st.encHist
    /\ decHist' = st.decHist
    /\ lastRead' = st.lastRead

\* Both sides freshly created by newPointMetadata, nothing written yet.
Fresh ==
    [ enc |-> newPointMetadata, dec |-> newPointMetadata,
      stream |-> << >>, pending |-> << >>,
      encHist |-> NoHist, decHist |-> NoHist, lastRead |-> NoRead ]

\* The 64-bit value 0: four 16-bit limbs, the least significant first.
Zero64 == << 0, 0, 0, 0 >>

\* No call on the Ticks value yet.
NoConv ==
    [ op |-> "", prev |-> "", before |-> Zero64, arg |-> Zero64,
      negative |-> FALSE, ret |-> Zero64, flag |-> FALSE ]

\* The Ticks value while another part of the program runs.
IdleTicks ==
    /\ ticks = Zero64
    /\ conv = NoConv

\* No call on a pointMetadata of points yet.
NoTouch == [ op |-> "", id |-> 0, code |-> 0, before |-> << >>, n |-> 0 ]

\* The points while another part of the program runs: none was seen.
IdlePoints ==
    /\ points = << >>
    /\ touched = NoTouch

Init == Is(Fresh) /\ IdleSet /\ IdleRow /\ IdleTicks /\ IdlePoints

(***************************************************************************)
(* Actions                                                                 *)
(***************************************************************************)
\* The system after the encoder's pm.WriteCode(code): the bits go to the
\* stream, the state is updated.
AfterWrite(st, code) ==
    LET pm2  == WriteCode(st.enc, code)
        bits == WriteCodeBits(st.enc, code)
    IN  [ st EXCEPT !.enc = pm2,
                    !.stream = st.stream \o bits,
                    !.pending = Append(st.pending,
                                       [ code |-> code, bits |-> Len(bits),
                                         snap |-> pm2 ]),
                    !.encHist = Observe(st.encHist, st.enc, code, pm2) ]

\* The system after the decoder's pm.ReadCode(): the bits of one symbol leave
\* the stream, the state is updated.
AfterRead(st) ==
    LET r   == ReadCodeBits(st.dec, st.stream)
        pm2 == ReadCode(st.dec, st.stream)
    IN  [ st EXCEPT !.dec = pm2,
                    !.stream = r.rest,
                    !.pending = Tail(st.pending),
                    !.decHist = Observe(st.decHist, st.dec, r.val, pm2),
                    !.lastRead = [ code |-> r.val,
                                   bits |-> Len(st.stream) - Len(r.rest),
                                   sent |-> Head(st.pending).code,
                                   sentBits |-> Head(st.pending).bits,
                                   n |-> st.decHist.n + 1,
                                   encAfter |-> Head(st.pending).snap ] ]

\* The encoder codes one symbol, unless it has coded maxSymbols of them or
\* maxInFlight of them wait for the decoder.
EncWrite(code, maxSymbols, maxInFlight) ==
    /\ enc.panic = ""
    /\ encHist.n < maxSymbols
    /\ Len(pending) < maxInFlight
    /\ Becomes(AfterWrite(Sys, code))
    /\ UNCHANGED << setVars, rowVars, tickVars, pointVars >>

\* The decoder decodes the oldest symbol in flight.
DecRead ==
    /\ dec.panic = ""
    /\ pending # << >>
    /\ Becomes(AfterRead(Sys))
    /\ UNCHANGED << setVars, rowVars, tickVars, pointVars >>

Next ==
    \/ \E code \in Codes : EncWrite(code, MaxSymbols, MaxInFlight)
    \/ DecRead

Spec == Init /\ [][Next]_vars

\* Long runs: encoder and decoder in lockstep over the stream of a constant
\* point, through the startup phase and into the steady state.
NextLong ==
    \/ \E code \in LongCodes : EncWrite(code, MaxLongSymbols, 1)
    \/ DecRead

SpecLong == Init /\ [][NextLong]_vars

(***************************************************************************)
(* Adaptation windows                                                      *)
(***************************************************************************)
\* The system after encoder and decoder have coded the symbols of codes one
\* by one in lockstep, starting from st.
RECURSIVE Coded(_, _)
Coded(st, codes) ==
    IF codes = << >> THEN st
    ELSE IF Len(codes) = 1
    THEN LET written == AfterWrite(st, Head(codes))
         IN  IF written.enc.panic = "" THEN AfterRead(written) ELSE written
    ELSE LET half == Len(codes) \div 2
             mid  == Coded(st, SubSeq(codes, 1, half))
         IN  IF mid.dec.panic = "" /\ mid.enc.panic = ""
             THEN Coded(mid, SubSeq(codes, half + 1, Len(codes)))
             ELSE mid

\* n symbols of the stream of a constant point: TimeDelta1Forward, Value1, ...
ConstantPoint(n) ==
    [ i \in 1 .. n |-> IF i % 2 = 1 THEN TimeDelta1Forward ELSE Value1 ]

Repeat(code, n) == [ i \in 1 .. n |-> code ]

\* The symbols of a histogram over the first k codes of CodePool, code by code.
RECURSIVE SymbolsOf(_, _)
SymbolsOf(counts, k) ==
    IF k = 0 THEN << >>
    ELSE SymbolsOf(counts, k - 1) \o Repeat(CodePool[k], counts[k])

RECURSIVE SumFrom(_, _)
SumFrom(counts, k) ==
    IF k > NumWideCodes THEN 0 ELSE counts[k] + SumFrom(counts, k + 1)

\* Histograms of total symbols over the first NumWideCodes codes of CodePool:
\* every code but the first two occurs at most MaxMinorCount times, the rest
\* is the first code's, or is split evenly between the first two.
WindowsOf(total) ==
    { [ k \in 1 .. NumWideCodes |->
          IF k >= 3 THEN minor[k]
          ELSE IF k = 2
          THEN (IF split THEN (total - SumFrom(minor, 3)) \div 2 ELSE 0)
          ELSE (total - SumFrom(minor, 3))
               - (IF split THEN (total - SumFrom(minor, 3)) \div 2 ELSE 0) ] :
        << minor, split >> \in
            { m \in [ 3 .. NumWideCodes -> 0 .. MaxMinorCount ] :
                SumFrom(m, 3) <= total } \X BOOLEAN }

\* The symbols on which the first three adaptations are due.
Due1 == Threshold0 + 1
Due2 == Due1 + Threshold1 + 1
Due3 == Due2 + Threshold2 + 1

\* The states one symbol before an adaptation: startupMode 0 after 5 symbols,
\* startupMode 1 after 6 + 20 symbols, startupMode 2 after 6 + 21 + 100
\* symbols; the window before it is the stream of a constant point.
BeforeAdaptation ==
    { Coded(Fresh, SymbolsOf(w, NumWideCodes)) : w \in WindowsOf(Threshold0) }
    \cup
    { Coded(Fresh, ConstantPoint(Due1) \o SymbolsOf(w, NumWideCodes)) :
        w \in WindowsOf(Threshold1) }
    \cup
    { Coded(Fresh, ConstantPoint(Due2) \o SymbolsOf(w, NumWideCodes)) :
        w \in WindowsOf(Threshold2) }

InitAdapt ==
    /\ \E st \in BeforeAdaptation : Is(st)
    /\ IdleSet /\ IdleRow /\ IdleTicks /\ IdlePoints

\* The last symbol of a run that has coded n symbols so far: the one of the
\* adaptation it started before.
LastSymbol(n) ==
    IF n < Due2 - 1 THEN Due1 ELSE IF n < Due3 - 1 THEN Due2 ELSE Due3

\* The symbol that triggers the adaptation, drawn from the wide alphabet.
NextAdapt ==
    \/ \E code \in WideCodes : EncWrite(code, LastSymbol(encHist.n), 1)
    \/ DecRead

SpecAdapt == InitAdapt /\ [][NextAdapt]_vars

(***************************************************************************)
(* Properties                                                              *)
(***************************************************************************)
\* The fields of a pointMetadata that the symbol coder adapts.
CoderFields(pm) ==
    << pm.mode, pm.mode21, pm.mode31, pm.mode301, pm.mode41, pm.mode401,
       pm.mode4001, pm.commandStats, pm.commandsSentSinceLastChange,
       pm.startupMode >>

\* C1 (adaptation symmetry): once the decoder has read its k-th symbol, its
\* mode, hot slots, histogram, counter and startupMode are those the encoder
\* had right after writing its k-th symbol; in particular the two states
\* agree whenever no symbol is in flight.
AdaptationSymmetry ==
    /\ decHist.n > 0 => CoderFields(dec) = CoderFields(lastRead.encAfter)
    /\ pending = << >> => CoderFields(dec) = CoderFields(enc)

\* The decoder has just adapted to a mode other than the initial one while
\* the encoder is one symbol ahead.
AdaptationSymmetryWitness ==
    /\ decHist.adapted
    /\ dec.mode = 3
    /\ Len(pending) = 1
    /\ encHist.n = decHist.n + 1

\* Bit strings that follow a symbol in the stream.
Tails == { << >>, << 1, 0 >> }

RoundTripIn(pm) ==
    \A code \in CodeWords : \A tail \in Tails :
        LET r == ReadCodeBits(pm, WriteCodeBits(pm, code) \o tail)
        IN  r.ok /\ r.val = code /\ r.rest = tail

\* C2 (symbol round trip): in every reachable state of a pointMetadata and
\* for every code 0..31, ReadCode on the bits of WriteCode returns that code
\* and consumes exactly those bits, whatever follows them; and each ReadCode
\* of the decoder returns the code of the oldest symbol in flight and
\* consumes exactly its bits.
SymbolRoundTrip ==
    /\ RoundTripIn(enc)
    /\ RoundTripIn(dec)
    /\ lastRead.n > 0 =>
         /\ dec.panic = ""
         /\ lastRead.code = lastRead.sent
         /\ lastRead.bits = lastRead.sentBits

\* After an adaptation the decoder has read a symbol of more than one bit
\* out of a stream that holds the bits of a later symbol as well.
SymbolRoundTripWitness ==
    /\ dec.adaptCalls = 1
    /\ lastRead.bits > 1
    /\ stream # << >>
    /\ Len(pending) = 1

\* C4 (monotonic startup): startupMode is in 0..3 and no coded symbol
\* lowers it.
MonotonicStartup ==
    /\ enc.startupMode \in 0 .. 3
    /\ dec.startupMode \in 0 .. 3
    /\ encHist.prevStartup <= enc.startupMode
    /\ decHist.prevStartup <= dec.startupMode

\* The decoder adapts in the steady state.
MonotonicStartupWitness ==
    /\ decHist.adapted
    /\ decHist.prevStartup = 2
    /\ dec.adaptCalls = 4

Min(a, b) == IF a <= b THEN a ELSE b

\* C5 as stated (startupMode counts the adaptations up to 3).
StartupCountsToThree ==
    /\ enc.startupMode = Min(3, enc.adaptCalls)
    /\ dec.startupMode = Min(3, dec.adaptCalls)

\* C5 (amended): startupMode is the number of adaptations performed so far,
\* capped at 2; the adaptations made while startupMode is 2 leave it at 2.
StartupCountsToTwo ==
    /\ enc.startupMode = Min(2, enc.adaptCalls)
    /\ dec.startupMode = Min(2, dec.adaptCalls)
    /\ encHist.adapted /\ encHist.prevStartup = 2 => enc.startupMode = 2
    /\ decHist.adapted /\ decHist.prevStartup = 2 => dec.startupMode = 2

\* The encoder has just made its third adaptation.
StartupCountsWitness ==
    /\ encHist.adapted
    /\ enc.adaptCalls = 3
    /\ encHist.prevStartup = 2

\* The condition of C6 on startupMode before the symbol and on the counter
\* after its increment.
Due(startup, count) ==
    \/ startup = 0 /\ count > 5
    \/ startup = 1 /\ count > 20
    \/ startup >= 2 /\ count > 100

\* The symbol, counted from the previous adaptation, on which the k-th
\* adaptation fires.
GapOf(k) == IF k = 1 THEN 6 ELSE IF k = 2 THEN 21 ELSE 101

ScheduleOf(pm, h) ==
    /\ h.n > 0 => (h.adapted <=> Due(h.prevStartup, h.prevCount + 1))
    /\ h.calls \in { 0, 1 }
    /\ h.adapted => h.gap = GapOf(pm.adaptCalls)
    /\ h.since < GapOf(pm.adaptCalls + 1)

\* C6 (adaptation schedule): a coded symbol runs adaptCommands exactly when
\* the incremented counter exceeds 5 / 20 / 100 for startupMode 0 / 1 /
\* later, and at most once; so the adaptations fire on the 6th symbol, on
\* the 21st symbol after the first adaptation and on every 101st symbol
\* after each later adaptation.
AdaptationSchedule ==
    /\ ScheduleOf(enc, encHist)
    /\ ScheduleOf(dec, decHist)

\* The decoder has just made its fourth adaptation, 101 symbols after its
\* third.
AdaptationScheduleWitness ==
    /\ decHist.adapted
    /\ dec.adaptCalls = 4
    /\ decHist.gap = 101
    /\ decHist.n = 229

\* The last symbol of the coder adapted in the steady state.
SteadyAdaptation(h) == h.adapted /\ h.prevStartup = 2

\* C7 as stated (a steady-state adaptation fires on the 100th symbol since
\* the previous adaptation).
SteadyPeriod100 ==
    /\ SteadyAdaptation(encHist) => encHist.gap = 100
    /\ SteadyAdaptation(decHist) => decHist.gap = 100

SteadyPeriodOf(h) ==
    /\ SteadyAdaptation(h) => h.gap = 101 /\ (h.n - 27) % 101 = 0
    /\ h.prevStartup = 2 /\ ~ h.adapted => h.since \in 1 .. 100

\* C7 (amended): once startupMode is at its cap, each adaptation fires on
\* the 101st symbol coded since the previous adaptation, and none between.
SteadyPeriod101 ==
    /\ SteadyPeriodOf(encHist)
    /\ SteadyPeriodOf(decHist)

\* The encoder has just made its second steady-state adaptation.
SteadyPeriodWitness ==
    /\ SteadyAdaptation(encHist)
    /\ enc.adaptCalls = 4
    /\ encHist.n = 229


(***************************************************************************)
(* Properties of an adaptation                                             *)
(***************************************************************************)
RECURSIVE TotalFrom(_, _)
TotalFrom(stats, i) ==
    IF i >= NumCodeWords THEN 0 ELSE stats[i] + TotalFrom(stats, i + 1)

\* The number of symbols in a histogram.
Total(stats) == TotalFrom(stats, 0)

\* The symbol of the largest count among the symbols of S, the lowest such
\* symbol if several have that count.
First(stats, S) ==
    CHOOSE i \in S :
        \A j \in S : stats[j] < stats[i] \/ (stats[j] = stats[i] /\ i <= j)

\* The three top-ranked symbols of a histogram.
Ranks(stats) ==
    LET r1 == First(stats, CodeWords)
        r2 == First(stats, CodeWords \ { r1 })
        r3 == First(stats, CodeWords \ { r1, r2 })
    IN  << r1, r2, r3 >>

\* size(1) .. size(4) of the mode selection for a histogram.
Sizes(stats) ==
    LET T  == Total(stats)
        r  == Ranks(stats)
        c1 == stats[r[1]]
        c2 == stats[r[2]]
        c3 == stats[r[3]]
    IN  << 5 * T,
           c1 + 6 * (T - c1),
           c1 + 2 * c2 + 7 * (T - c1 - c2),
           c1 + 2 * c2 + 3 * c3 + 8 * (T - c1 - c2 - c3) >>

\* The lowest mode of minimal size.
LowestMinimal(sizes) ==
    CHOOSE m \in 1 .. 4 :
        /\ \A k \in 1 .. 4 : sizes[m] <= sizes[k]
        /\ \A k \in 1 .. (m - 1) : sizes[m] < sizes[k]

BestMode(stats) == LowestMinimal(Sizes(stats))

\* C8 (mode-size optimality): the mode an adaptation installs is the lowest
\* mode of minimal size for the histogram the adaptation received.
ModeSizeOptimal ==
    /\ encHist.adapted => enc.mode = BestMode(encHist.statsIn)
    /\ decHist.adapted => dec.mode = BestMode(decHist.statsIn)

\* An adaptation has installed mode 1 for a histogram for which mode 4 has
\* the same, minimal size.
ModeSizeOptimalWitness ==
    /\ decHist.adapted
    /\ dec.mode = 1
    /\ Sizes(decHist.statsIn)[1] = Sizes(decHist.statsIn)[4]
    /\ Sizes(decHist.statsIn)[1] < Sizes(decHist.statsIn)[2]

TopThreeOf(stats) ==
    LET t == scanStats(stats)
        r == Ranks(stats)
    IN  /\ t.total = Total(stats)
        /\ t.count1 = stats[r[1]]
        /\ t.count2 = stats[r[2]]
        /\ t.count3 = stats[r[3]]
        /\ t.count1 > 0 => t.code1 = r[1]
        /\ t.count2 > 0 => t.code2 = r[2]
        /\ t.count3 > 0 => t.code3 = r[3]

\* C9 (top-3 selection): for the histogram an adaptation receives, the scan
\* yields the three largest counts in descending order, each ranked symbol
\* of non-zero count is ranked once, with its own count, and of symbols of
\* equal count the lower one gets the higher rank.
TopThreeSelection ==
    /\ encHist.adapted => TopThreeOf(encHist.statsIn)
    /\ decHist.adapted => TopThreeOf(decHist.statsIn)

\* An adaptation over a histogram in which at least four symbols share the
\* largest count.
TopThreeSelectionWitness ==
    /\ encHist.adapted
    /\ Cardinality({ i \in CodeWords :
                       encHist.statsIn[i] = encHist.statsIn[Ranks(encHist.statsIn)[1]] }) >= 4

EffectOf(pm, h) ==
    LET t == scanStats(h.statsIn)
        r == Ranks(h.statsIn)
    IN  /\ pm.commandStats = ZeroStats
        /\ pm.commandsSentSinceLastChange = 0
        /\ pm.mode \in 1 .. 4
        /\ pm.mode = 2 => pm.mode21 = t.code1 /\ pm.mode21 = r[1]
        /\ pm.mode = 3 => /\ pm.mode31 = t.code1 /\ pm.mode31 = r[1]
                          /\ pm.mode301 = t.code2 /\ pm.mode301 = r[2]
        /\ pm.mode = 4 => /\ pm.mode41 = t.code1 /\ pm.mode41 = r[1]
                          /\ pm.mode401 = t.code2 /\ pm.mode401 = r[2]
                          /\ pm.mode4001 = t.code3 /\ pm.mode4001 = r[3]

\* C10 (effect of an adaptation): right after adaptCommands the histogram is
\* all zero, commandsSentSinceLastChange is 0 and the hot slots of the mode
\* chosen hold the top-ranked symbols of the histogram it received.
AdaptationEffect ==
    /\ encHist.adapted => EffectOf(enc, encHist)
    /\ decHist.adapted => EffectOf(dec, decHist)

\* A steady-state adaptation of the decoder has installed mode 4 with three
\* hot slots other than the initial ones.
AdaptationEffectWitness ==
    /\ decHist.adapted
    /\ decHist.n = Due3
    /\ dec.mode = 4
    /\ dec.mode41 # Value1
    /\ dec.mode401 # Value2
    /\ dec.mode4001 # Value3

(***************************************************************************)
(* Coding after an adaptation                                              *)
(***************************************************************************)
\* The runs of SpecAdapt, each continued by one symbol coded in the mode the
\* adaptation chose.
NextCoding ==
    \/ \E code \in WideCodes :
         EncWrite(code,
                  IF encHist.adapted THEN encHist.n + 1
                  ELSE LastSymbol(encHist.n),
                  1)
    \/ DecRead

SpecCoding == InitAdapt /\ [][NextCoding]_vars

(***************************************************************************)
(* Properties of the prefix codes                                          *)
(***************************************************************************)
\* The five bits of a code word, most significant first.
Raw5(S) ==
    << (S \div 16) % 2, (S \div 8) % 2, (S \div 4) % 2, (S \div 2) % 2, S % 2 >>

\* The prefix code of S under the mode and the hot slots of pm.
PrefixCode(pm, S) ==
    CASE pm.mode = 1 -> Raw5(S)
      [] pm.mode = 2 -> IF S = pm.mode21 THEN << 1 >>
                        ELSE << 0 >> \o Raw5(S)
      [] pm.mode = 3 -> IF S = pm.mode31 THEN << 1 >>
                        ELSE IF S = pm.mode301 THEN << 0, 1 >>
                        ELSE << 0, 0 >> \o Raw5(S)
      [] pm.mode = 4 -> IF S = pm.mode41 THEN << 1 >>
                        ELSE IF S = pm.mode401 THEN << 0, 1 >>
                        ELSE IF S = pm.mode4001 THEN << 0, 0, 1 >>
                        ELSE << 0, 0, 0 >> \o Raw5(S)

\* The only symbol in flight was written by a WriteCode that did not adapt,
\* so the encoder still holds the mode and the hot slots it was written with.
WrittenUnadapted ==
    /\ Len(pending) = 1
    /\ ~ encHist.adapted

\* C11 (prefix codes per mode): for every code S in 0..31 WriteCode emits
\* exactly the 5 raw bits of S in mode 1; 1 for the hot slot, else 0 and the
\* 5 raw bits in mode 2; 1 / 01 for the two hot slots, else 00 and the 5 raw
\* bits in mode 3; 1 / 01 / 001 for the three hot slots, else 000 and the 5
\* raw bits in mode 4.  The bits a WriteCode has put on the stream are the
\* prefix code of its symbol.
PrefixCodes ==
    /\ \A S \in CodeWords :
         /\ WriteCodeBits(enc, S) = PrefixCode(enc, S)
         /\ WriteCodeBits(dec, S) = PrefixCode(dec, S)
    /\ WrittenUnadapted => stream = PrefixCode(enc, Head(pending).code)

\* A symbol outside the hot slots has been written in mode 3, after an
\* adaptation chose that mode: seven bits are on the stream.
PrefixCodesWitness ==
    /\ WrittenUnadapted
    /\ encHist.n > Due1
    /\ enc.mode = 3
    /\ Head(pending).code \notin { enc.mode31, enc.mode301 }
    /\ Len(stream) = 7

(***************************************************************************)
(* Properties of the initial state                                         *)
(***************************************************************************)
\* The mode and the hot slots of a pointMetadata no adaptation has touched.
InitialCoder(pm) ==
    /\ pm.mode = 4
    /\ pm.mode41 = 20
    /\ pm.mode401 = 21
    /\ pm.mode4001 = 22
    /\ pm.startupMode = 0

\* The prefix code of S under mode 4 with the hot slots 20, 21 and 22.
InitialCode(S) ==
    IF S = 20 THEN << 1 >>
    ELSE IF S = 21 THEN << 0, 1 >>
    ELSE IF S = 22 THEN << 0, 0, 1 >>
    ELSE << 0, 0, 0 >> \o Raw5(S)

\* A coder that has coded n symbols, none of them adapting, is the initial
\* coder and has counted its n symbols.
InitialCoderAfter(pm, n) ==
    /\ n < Due1 => /\ InitialCoder(pm)
                   /\ pm.commandsSentSinceLastChange = n
                   /\ pm.adaptCalls = 0
    /\ n = 0 => pm.commandStats = [ i \in CodeWords |-> 0 ]

\* C12 (initial state): a fresh pointMetadata is in mode 4 with hot slots
\* Value1 (20), Value2 (21) and Value3 (22), startupMode 0, an all-zero
\* histogram and a zero counter, and each of the first six symbols, those up
\* to and including the one of the first adaptation, is written and read
\* with exactly that mode and those hot slots.
InitialState ==
    /\ InitialCoderAfter(enc, encHist.n)
    /\ InitialCoderAfter(dec, decHist.n)
    /\ (Len(pending) = 1 /\ encHist.n \in 1 .. Due1)
         => stream = InitialCode(Head(pending).code)
    /\ lastRead.n \in 1 .. Due1
         => /\ lastRead.code = lastRead.sent
            /\ lastRead.bits = Len(InitialCode(lastRead.sent))

\* The sixth symbol, TimeDelta1Forward, has been written in eight bits by the
\* WriteCode whose adaptation then left mode 4.
InitialStateWitness ==
    /\ encHist.n = Due1
    /\ encHist.adapted
    /\ Len(pending) = 1
    /\ enc.mode # 4
    /\ TimeDelta1Forward \in { enc.mode21, enc.mode31, enc.mode301 }
    /\ stream = << 0, 0, 0, 0, 1, 0, 0, 0 >>

(***************************************************************************)
(* Properties of the mode                                                  *)
(***************************************************************************)
\* The smallest size adaptCommands computes over stats is the size of one of
\* the four modes.
SizeMatched(stats) ==
    LET t == scanStats(stats)
    IN  minSize(t) \in { mode1Size(t), mode2Size(t), mode3Size(t), mode4Size(t) }

\* C13 (mode stays in range): in every state reached from newPointMetadata
\* by coding symbols, mode is one of 1, 2, 3, 4, so neither WriteCode nor
\* ReadCode has taken its coding-error branch, and no adaptCommands has
\* reached the branch in which minSize equals none of the four mode sizes.
ModeInRange ==
    /\ enc.mode \in 1 .. 4
    /\ dec.mode \in 1 .. 4
    /\ enc.panic = ""
    /\ dec.panic = ""
    /\ encHist.adapted => SizeMatched(encHist.statsIn)
    /\ decHist.adapted => SizeMatched(decHist.statsIn)

\* The first adaptation chose mode 1 and the seventh symbol has been written
\* and read in it, in five bits.
ModeInRangeWitness ==
    /\ decHist.n = Due1 + 1
    /\ ~ decHist.adapted
    /\ dec.adaptCalls = 1
    /\ dec.mode = 1
    /\ enc.mode = 1
    /\ lastRead.bits = 5

(***************************************************************************)
(* guid.HashSet                                                            *)
(***************************************************************************)
\* Bounds: the Guid values in use and the longest slice passed to a method.
NumGuids == 3

MaxSliceLen == 2

Guids == 1 .. NumGuids

\* The slices []Guid passed to the methods: elements may repeat.
Slices == UNION { [ 1 .. n -> Guids ] : n \in 0 .. MaxSliceLen }

\* The predicates passed to RemoveWhere, each as the set of Guids it holds of.
Predicates == SUBSET Guids

\* The orders in which a range over the map s may produce its keys.
RangeOrders(s) ==
    { f \in [ 1 .. Cardinality(s) -> s ] :
        \A i, j \in 1 .. Cardinality(s) : f[i] = f[j] => i = j }

Contains(s, item) == item \in s

IsEmpty(s) == Cardinality(s) = 0

\* Variant of Add: reports true whether or not the item was present.
AddAlways(s, item) ==
    [ set |-> s \cup { item }, ret |-> TRUE ]

\* Add: the set after the call and the value returned.
Add(s, item) ==
    IF Contains(s, item)
    THEN [ set |-> s, ret |-> FALSE ]
    ELSE [ set |-> s \cup { item }, ret |-> TRUE ]

\* Remove: the set after the call and the value returned.
Remove(s, item) ==
    IF Contains(s, item)
    THEN [ set |-> s \ { item }, ret |-> TRUE ]
    ELSE [ set |-> s, ret |-> FALSE ]

\* UnionWith: the set after the loop has added the elements of other.
RECURSIVE UnionWith(_, _)
UnionWith(s, other) ==
    IF other = << >> THEN s
    ELSE UnionWith(Add(s, Head(other)).set, Tail(other))

NewHashSet(items) == UnionWith({}, items)

\* Keys: the slices the call may return, one per order of the range.
Keys(s) == RangeOrders(s)

\* Variant of RemoveLoop: the count also grows for keys the predicate rejects.
RemoveLoopCountsAll(s, keys, predicate, removedCount) ==
    [ set |-> s \ predicate, count |-> removedCount + Len(keys) ]

\* The loop of RemoveWhere over the keys in the order the range produces
\* them: the set and the count after it.
RECURSIVE RemoveLoop(_, _, _, _)
RemoveLoop(s, keys, predicate, removedCount) ==
    IF keys = << >> THEN [ set |-> s, count |-> removedCount ]
    ELSE LET k == Head(keys)
             r == Remove(s, k)
         IN  IF k \in predicate /\ r.ret
             THEN RemoveLoop(r.set, Tail(keys), predicate, removedCount + 1)
             ELSE RemoveLoop(s, Tail(keys), predicate, removedCount)

RemoveWhere(s, keys, predicate) == RemoveLoop(s, keys, predicate, 0)

\* The loop of SymmetricExceptWith: an element that cannot be removed is
\* added.
RECURSIVE ToggleLoop(_, _)
ToggleLoop(s, other) ==
    IF other = << >> THEN s
    ELSE LET r == Remove(s, Head(other))
         IN  ToggleLoop(IF ~ r.ret THEN Add(s, Head(other)).set ELSE r.set,
                        Tail(other))

SymmetricExceptWith(s, other) ==
    IF IsEmpty(s) THEN UnionWith(s, other)
    ELSE ToggleLoop(s, other)

\* The loop shared by SetEquals, IsSupersetOf and IsProperSupersetOf: false
\* at the first element of other the set does not contain.
ContainsEach(s, other) ==
    \A i \in 1 .. Len(other) : Contains(s, other[i])

SetEquals(s, other) ==
    IF Cardinality(s) # Len(other) THEN FALSE
    ELSE ContainsEach(s, other)

IsSupersetOf(s, other) ==
    IF Len(other) = 0 THEN TRUE
    ELSE IF Len(other) > Cardinality(s) THEN FALSE
    ELSE ContainsEach(s, other)

IsProperSupersetOf(s, other) ==
    IF IsEmpty(s) THEN TRUE
    ELSE IF Len(other) = 0 THEN TRUE
    ELSE IF Len(other) >= Cardinality(s) THEN FALSE
    ELSE ContainsEach(s, other)

\* A HashSet built by NewHashSet from a slice.
InitSet ==
    /\ Is(Fresh)
    /\ IdleRow
    /\ IdleTicks
    /\ IdlePoints
    /\ \E items \in Slices : hs = NewHashSet(items)
    /\ call = NoCall

DoAdd(item) ==
    /\ hs' = Add(hs, item).set
    /\ call' = [ NoCall EXCEPT !.op = "Add", !.before = hs, !.item = item,
                               !.ret = Add(hs, item).ret ]
    /\ UNCHANGED << coderVars, rowVars, tickVars, pointVars >>

DoRemove(item) ==
    /\ hs' = Remove(hs, item).set
    /\ call' = [ NoCall EXCEPT !.op = "Remove", !.before = hs, !.item = item,
                               !.ret = Remove(hs, item).ret ]
    /\ UNCHANGED << coderVars, rowVars, tickVars, pointVars >>

DoRemoveWhere(predicate) ==
    \E keys \in RangeOrders(hs) :
        /\ hs' = RemoveWhere(hs, keys, predicate).set
        /\ call' = [ NoCall EXCEPT !.op = "RemoveWhere", !.before = hs,
                                   !.pred = predicate, !.other = keys,
                                   !.count = RemoveWhere(hs, keys, predicate).count ]
        /\ UNCHANGED << coderVars, rowVars, tickVars, pointVars >>

DoSymmetricExceptWith(other) ==
    /\ hs' = SymmetricExceptWith(hs, other)
    /\ call' = [ NoCall EXCEPT !.op = "SymmetricExceptWith", !.before = hs,
                               !.other = other ]
    /\ UNCHANGED << coderVars, rowVars, tickVars, pointVars >>

DoSetEquals(other) ==
    /\ hs' = hs
    /\ call' = [ NoCall EXCEPT !.op = "SetEquals", !.before = hs,
                               !.other = other, !.ret = SetEquals(hs, other) ]
    /\ UNCHANGED << coderVars, rowVars, tickVars, pointVars >>

DoIsSupersetOf(other) ==
    /\ hs' = hs
    /\ call' = [ NoCall EXCEPT !.op = "IsSupersetOf", !.before = hs,
                               !.other = other, !.ret = IsSupersetOf(hs, other) ]
    /\ UNCHANGED << coderVars, rowVars, tickVars, pointVars >>

DoIsProperSupersetOf(other) ==
    /\ hs' = hs
    /\ call' = [ NoCall EXCEPT !.op = "IsProperSupersetOf", !.before = hs,
                               !.other = other,
                               !.ret = IsProperSupersetOf(hs, other) ]
    /\ UNCHANGED << coderVars, rowVars, tickVars, pointVars >>

\* IsProperSupersetOfSet passes the keys of the other set, in the order its
\* range produces them.
DoIsProperSupersetOfSet(otherSet) ==
    \E keys \in Keys(otherSet) :
        /\ hs' = hs
        /\ call' = [ NoCall EXCEPT !.op = "IsProperSupersetOfSet", !.before = hs,
                                   !.other = keys,
                                   !.ret = IsProperSupersetOf(hs, keys) ]
        /\ UNCHANGED << coderVars, rowVars, tickVars, pointVars >>

NextSet ==
    \/ \E item \in Guids : DoAdd(item)
    \/ \E item \in Guids : DoRemove(item)
    \/ \E predicate \in Predicates : DoRemoveWhere(predicate)
    \/ \E other \in Slices : DoSymmetricExceptWith(other)
    \/ \E other \in Slices : DoSetEquals(other)
    \/ \E other \in Slices : DoIsSupersetOf(other)
    \/ \E other \in Slices : DoIsProperSupersetOf(other)
    \/ \E otherSet \in SUBSET Guids : DoIsProperSupersetOfSet(otherSet)

SpecSet == InitSet /\ [][NextSet]_vars

\* The elements of a slice.
ElementsOf(other) == { other[i] : i \in 1 .. Len(other) }

\* C14 (Add and Remove): Add returns true exactly when the item was absent
\* before and Remove exactly when it was present; after Add the set contains
\* the item, after Remove it does not, and the membership of every other
\* element is unchanged.
AddRemove ==
    /\ call.op = "Add" =>
         /\ call.ret <=> call.item \notin call.before
         /\ call.item \in hs
         /\ \A g \in Guids \ { call.item } : g \in hs <=> g \in call.before
    /\ call.op = "Remove" =>
         /\ call.ret <=> call.item \in call.before
         /\ call.item \notin hs
         /\ \A g \in Guids \ { call.item } : g \in hs <=> g \in call.before

\* An Add of an item already present has returned false, next to other
\* elements.
AddRemoveWitness ==
    /\ call.op = "Add"
    /\ call.item \in call.before
    /\ ~ call.ret
    /\ Cardinality(hs) >= 2

\* C15 (IsProperSupersetOf, IsProperSupersetOfSet): the call returns true
\* exactly when the set is a proper superset of the elements of other: every
\* element of other is in the set and the set has an element that is not in
\* other; for every set, the empty one included, and every other, empty
\* slices and slices with repeated elements included.
ProperSuperset ==
    call.op \in { "IsProperSupersetOf", "IsProperSupersetOfSet" } =>
        (call.ret <=> /\ ElementsOf(call.other) \subseteq call.before
                      /\ call.before \ ElementsOf(call.other) # {})

\* C16 (SetEquals): the call returns true exactly when the set and the slice
\* other contain the same elements, for every set and every slice, slices
\* with repeated elements included.
SameElements ==
    call.op = "SetEquals" =>
        (call.ret <=> call.before = ElementsOf(call.other))

\* C17 (IsSupersetOf): the call returns true exactly when every element of
\* the slice other is in the set, also when the slice is longer than the set
\* because an element is repeated.
Superset ==
    call.op = "IsSupersetOf" =>
        (call.ret <=> ElementsOf(call.other) \subseteq call.before)

\* C18 (SymmetricExceptWith): the call leaves the set holding exactly the
\* elements that are in the original set or in the slice other but not in
\* both, for every set, empty or not, and every slice, slices with repeated
\* elements included.
SymmetricDifference ==
    call.op = "SymmetricExceptWith" =>
        hs = (call.before \ ElementsOf(call.other))
             \cup (ElementsOf(call.other) \ call.before)

\* C19 (RemoveWhere): the call removes every element of which the predicate
\* holds and no other, and returns the number of elements removed, which is
\* the number of elements of the original set of which the predicate holds.
RemovedWhere ==
    call.op = "RemoveWhere" =>
        /\ hs = { g \in call.before : g \notin call.pred }
        /\ call.count = Cardinality(call.before \cap call.pred)
        /\ call.count = Cardinality(call.before) - Cardinality(hs)

\* A RemoveWhere has removed two elements of a set of three.
RemovedWhereWitness ==
    /\ call.op = "RemoveWhere"
    /\ Cardinality(call.before) = 3
    /\ call.count = 2
    /\ Cardinality(hs) = 1

(***************************************************************************)
(* metadata.DataRow                                                        *)
(***************************************************************************)
\* Bound: the number of columns of the parent table.
NumColumns == 2

\* The column types in use, and the targetType -1 of an untyped access.
DataTypes == { "String", "Int32" }

NoType == ""

\* The columns of a parent table: each has a type and is computed or not.
Tables == [ 1 .. NumColumns -> [ type : DataTypes, computed : BOOLEAN ] ]

\* The values assigned to fields.
Values == { Nil, StringOf("a"), Int32Of(7) }

\* The column indexes passed to the methods, in range or not.
Indexes == -1 .. NumColumns

\* The nil *DataColumn.
NilColumn == [ type |-> NoType, computed |-> FALSE ]

\* DataTable.Column: the column at columnIndex, nil when there is none.
Column(r, columnIndex) ==
    IF columnIndex \in 0 .. Len(r.columns) - 1
    THEN r.columns[columnIndex + 1]
    ELSE NilColumn

\* The row with one value per column of the parent, all nil.
newDataRow(columns) ==
    [ columns |-> columns, values |-> [ i \in 1 .. Len(columns) |-> Nil ] ]

\* Variant of validateColumnType: an assignment to a computed column passes.
validateColumnTypeLax(r, columnIndex, targetType, read) ==
    IF Column(r, columnIndex) = NilColumn
    THEN [ err |-> "Column index is out of range", panic |-> "" ]
    ELSE IF targetType # NoType /\ Column(r, columnIndex).type # targetType
    THEN [ err |-> "",
           panic |-> IF read THEN "Cannot read value from DataColumn"
                     ELSE "Cannot assign value to DataColumn" ]
    ELSE [ err |-> "", panic |-> "" ]

\* validateColumnType: the error it returns or the panic it raises.
validateColumnType(r, columnIndex, targetType, read) ==
    IF Column(r, columnIndex) = NilColumn
    THEN [ err |-> "Column index is out of range", panic |-> "" ]
    ELSE IF targetType # NoType /\ Column(r, columnIndex).type # targetType
    THEN [ err |-> "",
           panic |-> IF read THEN "Cannot read value from DataColumn"
                     ELSE "Cannot assign value to DataColumn" ]
    ELSE IF ~ read /\ Column(r, columnIndex).computed
    THEN [ err |-> "", panic |-> "Cannot assign value, column is computed" ]
    ELSE [ err |-> "", panic |-> "" ]

getComputedValue(column) == [ value |-> Nil, err |-> "" ]

\* The type assertion value.(T): the value when its dynamic type is T, a
\* panic otherwise, also for the nil interface value.
TypeAssertion(value, type) ==
    IF value.type = type
    THEN [ NoResult EXCEPT !.value = value ]
    ELSE [ NoResult EXCEPT !.panic = "interface conversion" ]

\* The body shared by the typed getters, for the getter of type with the
\* zero value zero.
TypedValue(r, columnIndex, type, zero) ==
    LET v == validateColumnType(r, columnIndex, type, TRUE)
        c == getComputedValue(Column(r, columnIndex))
    IN  IF v.panic # "" THEN [ NoResult EXCEPT !.panic = v.panic ]
        ELSE IF v.err # "" THEN [ NoResult EXCEPT !.value = zero, !.err = v.err ]
        ELSE IF Column(r, columnIndex).computed
        THEN IF c.err # ""
             THEN [ NoResult EXCEPT !.value = zero, !.err = c.err ]
             ELSE TypeAssertion(c.value, type)
        ELSE TypeAssertion(r.values[columnIndex + 1], type)

StringValue(r, columnIndex) ==
    TypedValue(r, columnIndex, "String", StringOf(""))

Int32Value(r, columnIndex) ==
    TypedValue(r, columnIndex, "Int32", Int32Of(0))

\* Value: the untyped read.
Value(r, columnIndex) ==
    LET v == validateColumnType(r, columnIndex, NoType, TRUE)
    IN  IF v.panic # "" THEN [ NoResult EXCEPT !.panic = v.panic ]
        ELSE IF v.err # "" THEN [ NoResult EXCEPT !.err = v.err ]
        ELSE IF Column(r, columnIndex).computed
        THEN [ NoResult EXCEPT !.value = getComputedValue(Column(r, columnIndex)).value,
                               !.err = getComputedValue(Column(r, columnIndex)).err ]
        ELSE [ NoResult EXCEPT !.value = r.values[columnIndex + 1] ]

\* Variant of SetValue: the value is stored in the slot of the next column
\* when there is one.
SetValueShifted(r, columnIndex, value) ==
    LET v == validateColumnType(r, columnIndex, NoType, FALSE)
    IN  IF v.panic # "" THEN [ r |-> r, err |-> "", panic |-> v.panic ]
        ELSE IF v.err # "" THEN [ r |-> r, err |-> v.err, panic |-> "" ]
        ELSE [ r |-> [ r EXCEPT !.values[IF columnIndex + 2 <= Len(r.values)
                                         THEN columnIndex + 2
                                         ELSE columnIndex + 1] = value ],
               err |-> "", panic |-> "" ]

\* SetValue: the row after the call and the error or panic of the call.
SetValue(r, columnIndex, value) ==
    LET v == validateColumnType(r, columnIndex, NoType, FALSE)
    IN  IF v.panic # "" THEN [ r |-> r, err |-> "", panic |-> v.panic ]
        ELSE IF v.err # "" THEN [ r |-> r, err |-> v.err, panic |-> "" ]
        ELSE [ r |-> [ r EXCEPT !.values[columnIndex + 1] = value ],
               err |-> "", panic |-> "" ]

\* The names of the columns of a parent table, by position, and the column
\* names passed to the methods: those of the table and one it does not have.
ColumnNames == << "c0", "c1", "c2", "c3" >>

Names == { ColumnNames[i] : i \in 1 .. NumColumns } \cup { "none" }

\* getColumnIndex: the index of the column of that name, or -1 and an error
\* when the parent has no such column.
getColumnIndex(r, columnName) ==
    IF \E i \in 1 .. Len(r.columns) : ColumnNames[i] = columnName
    THEN [ index |-> (CHOOSE i \in 1 .. Len(r.columns) :
                        ColumnNames[i] = columnName) - 1,
           err |-> "" ]
    ELSE [ index |-> -1, err |-> "Column name was not found" ]

\* ValueByName: the stored value of the column of that name.
ValueByName(r, columnName) ==
    LET c == getColumnIndex(r, columnName)
    IN  IF c.err # "" THEN [ NoResult EXCEPT !.err = c.err ]
        ELSE [ NoResult EXCEPT !.value = r.values[c.index + 1] ]

SetValueByName(r, columnName, value) ==
    LET c == getColumnIndex(r, columnName)
    IN  IF c.err # "" THEN [ r |-> r, err |-> c.err, panic |-> "" ]
        ELSE SetValue(r, c.index, value)

\* strconv.FormatInt(n, 10): the decimal digits of n, with a sign when
\* n is negative.
Digit(d) ==
    CASE d = 0 -> "0" [] d = 1 -> "1" [] d = 2 -> "2" [] d = 3 -> "3"
      [] d = 4 -> "4" [] d = 5 -> "5" [] d = 6 -> "6" [] d = 7 -> "7"
      [] d = 8 -> "8" [] d = 9 -> "9"

RECURSIVE FormatNat(_)
FormatNat(n) ==
    IF n < 10 THEN Digit(n) ELSE FormatNat(n \div 10) \o Digit(n % 10)

FormatInt(n) == IF n < 0 THEN "-" \o FormatNat(0 - n) ELSE FormatNat(n)

\* What a call that returns a string yields: the string, or a panic.
Text(str) == [ NoResult EXCEPT !.value = StringOf(str) ]

\* ColumnValueAsString, for the column of the row's parent at columnIndex
\* (nil when there is none): "" when the typed getter returns an error.
ColumnValueAsString(r, columnIndex) ==
    LET column == Column(r, columnIndex)
        str    == StringValue(r, columnIndex)
        int    == Int32Value(r, columnIndex)
    IN  IF column = NilColumn THEN Text("")
        ELSE CASE column.type = "String" ->
                    IF str.panic # "" THEN [ NoResult EXCEPT !.panic = str.panic ]
                    ELSE IF str.err # "" THEN Text("")
                    ELSE Text(str.value.s)
               [] column.type = "Int32" ->
                    IF int.panic # "" THEN [ NoResult EXCEPT !.panic = int.panic ]
                    ELSE IF int.err # "" THEN Text("")
                    ELSE Text(FormatInt(int.value.i))
               [] OTHER -> Text("")

ValueAsString(r, columnIndex) == ColumnValueAsString(r, columnIndex)

ValueAsStringByName(r, columnName) ==
    ColumnValueAsString(r, getColumnIndex(r, columnName).index)

\* A row just created by newDataRow for a parent table.
InitRow ==
    /\ Is(Fresh)
    /\ IdleSet
    /\ IdleTicks
    /\ IdlePoints
    /\ \E columns \in Tables : row = newDataRow(columns)
    /\ got = NoGot

\* A call that reads the row; a panic ends the program.
Read(op, columnIndex, result) ==
    /\ got.panic = ""
    /\ row' = row
    /\ got' = [ op |-> op, index |-> columnIndex, name |-> "", arg |-> Nil,
                before |-> row,
                value |-> result.value, err |-> result.err,
                panic |-> result.panic ]
    /\ UNCHANGED << coderVars, setVars, tickVars, pointVars >>

DoSetValue(columnIndex, value) ==
    /\ got.panic = ""
    /\ row' = SetValue(row, columnIndex, value).r
    /\ got' = [ op |-> "SetValue", index |-> columnIndex, name |-> "",
                arg |-> value, before |-> row, value |-> Nil,
                err |-> SetValue(row, columnIndex, value).err,
                panic |-> SetValue(row, columnIndex, value).panic ]
    /\ UNCHANGED << coderVars, setVars, tickVars, pointVars >>

DoValue(columnIndex) == Read("Value", columnIndex, Value(row, columnIndex))

DoStringValue(columnIndex) ==
    Read("StringValue", columnIndex, StringValue(row, columnIndex))

DoInt32Value(columnIndex) ==
    Read("Int32Value", columnIndex, Int32Value(row, columnIndex))

\* A call that reads the row by column name.
ReadByName(op, columnName, result) ==
    /\ got.panic = ""
    /\ row' = row
    /\ got' = [ op |-> op, index |-> getColumnIndex(row, columnName).index,
                name |-> columnName, arg |-> Nil, before |-> row,
                value |-> result.value, err |-> result.err,
                panic |-> result.panic ]
    /\ UNCHANGED << coderVars, setVars, tickVars, pointVars >>

DoSetValueByName(columnName, value) ==
    /\ got.panic = ""
    /\ row' = SetValueByName(row, columnName, value).r
    /\ got' = [ op |-> "SetValueByName",
                index |-> getColumnIndex(row, columnName).index,
                name |-> columnName, arg |-> value, before |-> row,
                value |-> Nil,
                err |-> SetValueByName(row, columnName, value).err,
                panic |-> SetValueByName(row, columnName, value).panic ]
    /\ UNCHANGED << coderVars, setVars, tickVars, pointVars >>

DoValueByName(columnName) ==
    ReadByName("ValueByName", columnName, ValueByName(row, columnName))

DoValueAsString(columnIndex) ==
    Read("ValueAsString", columnIndex, ValueAsString(row, columnIndex))

DoValueAsStringByName(columnName) ==
    ReadByName("ValueAsStringByName", columnName,
               ValueAsStringByName(row, columnName))

NextRow ==
    \/ \E columnIndex \in Indexes, value \in Values : DoSetValue(columnIndex, value)
    \/ \E columnIndex \in Indexes : DoValue(columnIndex)
    \/ \E columnIndex \in Indexes : DoStringValue(columnIndex)
    \/ \E columnIndex \in Indexes : DoInt32Value(columnIndex)
    \/ \E columnName \in Names, value \in Values : DoSetValueByName(columnName, value)
    \/ \E columnName \in Names : DoValueByName(columnName)
    \/ \E columnIndex \in Indexes : DoValueAsString(columnIndex)
    \/ \E columnName \in Names : DoValueAsStringByName(columnName)

SpecRow == InitRow /\ [][NextRow]_vars

\* The column type a typed getter reads, and the zero value of its result.
GetterType(op) == IF op = "StringValue" THEN "String" ELSE "Int32"

GetterZero(op) == IF op = "StringValue" THEN StringOf("") ELSE Int32Of(0)

\* C20 (type mismatch in a typed getter): for every column index in range
\* whose column type is not the getter's type, StringValue and Int32Value
\* return a non-nil error together with the zero value and do not panic,
\* and the row is unchanged.
MismatchIsError ==
    ( /\ got.op \in { "StringValue", "Int32Value" }
      /\ got.index \in 0 .. NumColumns - 1
      /\ Column(got.before, got.index).type # GetterType(got.op) )
    => /\ got.panic = ""
       /\ got.err # ""
       /\ got.value = GetterZero(got.op)
       /\ row = got.before

\* C21 (ValueAsString never aborts): ValueAsString and ValueAsStringByName
\* return the empty string, and do not panic, for a column index out of
\* range, an unknown column name, a column whose value was never assigned,
\* a computed column, and a stored value whose dynamic type differs from the
\* column type.
AsStringNeverAborts ==
    got.op \in { "ValueAsString", "ValueAsStringByName" } =>
        /\ got.panic = ""
        /\ ( \/ Column(got.before, got.index) = NilColumn
             \/ Column(got.before, got.index).computed
             \/ got.before.values[got.index + 1].type
                  # Column(got.before, got.index).type )
           => got.value = StringOf("")

\* The indexes of the columns of r, and those of its computed columns.
InRange(r) == 0 .. Len(r.columns) - 1

ComputedIn(r) == { j \in InRange(r) : r.columns[j + 1].computed }

\* C22 (computed columns read as nil): after any sequence of DataRow
\* operations, Value and ValueByName on a computed column return nil and no
\* error, and the stored slot of a computed column is never assigned,
\* because SetValue and SetValueByName on a computed column abort without
\* changing the row.
ComputedIsNil ==
    /\ \A j \in ComputedIn(row) : row.values[j + 1] = Nil
    /\ \A j \in ComputedIn(row) :
         /\ Value(row, j) = NoResult
         /\ ValueByName(row, ColumnNames[j + 1]) = NoResult
    /\ ( /\ got.op \in { "Value", "ValueByName" }
         /\ got.index \in ComputedIn(got.before) )
       => /\ got.value = Nil
          /\ got.err = ""
          /\ got.panic = ""
    /\ ( /\ got.op \in { "SetValue", "SetValueByName" }
         /\ got.index \in ComputedIn(got.before) )
       => /\ got.panic # ""
          /\ row = got.before

\* A SetValueByName of a string on a computed column has aborted, in a row
\* whose other column holds a value.
ComputedIsNilWitness ==
    /\ got.op = "SetValueByName"
    /\ got.index \in ComputedIn(got.before)
    /\ got.arg = StringOf("a")
    /\ got.panic # ""
    /\ \E j \in InRange(row) : row.values[j + 1] # Nil

\* C28 (set/get round trip): for every column index i in range that is not
\* computed and every value v, after SetValue(i, v) has returned nil,
\* Value(i) returns v and no error and Value(j) returns for every other
\* column j what it returned before; SetValueByName(name, v) has the effect
\* of SetValue(i, v) for the index i of that name.
SetGetRoundTrip ==
    /\ ( /\ got.op \in { "SetValue", "SetValueByName" }
         /\ got.index \in InRange(got.before) \ ComputedIn(got.before) )
       => /\ got.err = ""
          /\ got.panic = ""
          /\ Value(row, got.index) = [ NoResult EXCEPT !.value = got.arg ]
          /\ \A j \in Indexes \ { got.index } :
               Value(row, j) = Value(got.before, j)
    /\ got.op = "SetValueByName" =>
         /\ got.index = getColumnIndex(got.before, got.name).index
         /\ got.index # -1 =>
              /\ row = SetValue(got.before, got.index, got.arg).r
              /\ got.err = SetValue(got.before, got.index, got.arg).err
              /\ got.panic = SetValue(got.before, got.index, got.arg).panic
         /\ got.index = -1 => row = got.before /\ got.err # ""

\* A SetValue has replaced the value of column 1 by an int32 while column 0
\* holds a string.
SetGetRoundTripWitness ==
    /\ got.op = "SetValue"
    /\ got.index = 1
    /\ got.arg = Int32Of(7)
    /\ got.before.values[2] = StringOf("a")
    /\ row.values[1] = StringOf("a")
    /\ got.err = ""
    /\ got.panic = ""

(***************************************************************************)
(* ticks.Ticks: arithmetic on uint64                                       *)
(***************************************************************************)
\* A uint64 is a sequence of four limbs below LimbBase, the least
\* significant first.
LimbBase == Pow2(16)

One64 == << 1, 0, 0, 0 >>

\* Sum, difference and product modulo 2^64, as Go computes them on uint64
\* (and, bit for bit, on int64).
Add64(a, b) ==
    LET s1 == a[1] + b[1]
        s2 == a[2] + b[2] + s1 \div LimbBase
        s3 == a[3] + b[3] + s2 \div LimbBase
        s4 == a[4] + b[4] + s3 \div LimbBase
    IN  << s1 % LimbBase, s2 % LimbBase, s3 % LimbBase, s4 % LimbBase >>

Not64(a) == [ i \in 1 .. 4 |-> LimbBase - 1 - a[i] ]

Sub64(a, b) == Add64(a, Add64(Not64(b), One64))

\* The product by a factor of at most 1000.
MulSmall(a, k) ==
    LET p1 == a[1] * k
        p2 == a[2] * k + p1 \div LimbBase
        p3 == a[3] * k + p2 \div LimbBase
        p4 == a[4] * k + p3 \div LimbBase
    IN  << p1 % LimbBase, p2 % LimbBase, p3 % LimbBase, p4 % LimbBase >>

\* The quotient by a divisor of at most 1000, rounded down.
DivSmall(a, k) ==
    LET r4 == a[4] % k
        n3 == r4 * LimbBase + a[3]
        n2 == (n3 % k) * LimbBase + a[2]
        n1 == (n2 % k) * LimbBase + a[1]
    IN  << n1 \div k, n2 \div k, n3 \div k, a[4] \div k >>

\* The bitwise and of two numbers of n bits.
RECURSIVE AndBits(_, _, _)
AndBits(x, y, n) ==
    IF n = 0 THEN 0
    ELSE (x % 2) * (y % 2) + 2 * AndBits(x \div 2, y \div 2, n - 1)

And64(a, b) == [ i \in 1 .. 4 |-> AndBits(a[i], b[i], 16) ]

\* The bitwise or, by De Morgan.
Or64(a, b) == Not64(And64(Not64(a), Not64(b)))

\* 1 << n.
Bit64(n) == [ i \in 1 .. 4 |-> IF i = (n \div 16) + 1 THEN Pow2(n % 16) ELSE 0 ]

\* a <= b.
Le64(a, b) ==
    \/ a = b
    \/ \E i \in 1 .. 4 :
         /\ a[i] < b[i]
         /\ \A j \in (i + 1) .. 4 : a[j] = b[j]

\* The uint64 of a number below LimbBase, and of a decimal numeral given in
\* groups of three digits, the most significant first.
Small64(n) == << n, 0, 0, 0 >>

RECURSIVE Decimal(_)
Decimal(groups) ==
    IF groups = << >> THEN Zero64
    ELSE Add64(MulSmall(Decimal(SubSeq(groups, 1, Len(groups) - 1)), 1000),
               Small64(groups[Len(groups)]))

(***************************************************************************)
(* ticks.Ticks                                                             *)
(***************************************************************************)
MinTicks == Zero64

MaxTicks == Decimal(<< 3, 155, 378, 975, 999, 999, 999 >>)

LeapSecondFlag == Bit64(63)

LeapSecondDirection == Bit64(62)

ValueMask == And64(Not64(LeapSecondFlag), Not64(LeapSecondDirection))

UnixBaseOffset == Decimal(<< 621, 355, 968, 000, 000, 000 >>)

TimestampValue(t) == And64(t, ValueMask)

FromUnixNs(ns) == Add64(DivSmall(ns, 100), UnixBaseOffset)

\* ToTime: the int64 nanoseconds since the Unix epoch handed to time.Unix.
ToTime(t) == MulSmall(And64(Sub64(t, UnixBaseOffset), ValueMask), 100)

\* Variant of ToUnixNs: no mask, and the difference is multiplied by 10.
ToUnixNsUnmasked(t) == MulSmall(Sub64(t, UnixBaseOffset), 10)

ToUnixNs(t) == MulSmall(Sub64(And64(t, ValueMask), UnixBaseOffset), 100)

IsLeapSecond(t) == And64(t, LeapSecondFlag) # Zero64

SetLeapSecond(t) == Or64(t, LeapSecondFlag)

\* Variant of SetLeapSecondDirection: the positive direction is set with
\* t &= LeapSecondDirection.
SetLeapSecondDirectionAnd(t, negative) ==
    IF negative THEN Or64(t, LeapSecondDirection)
    ELSE And64(t, LeapSecondDirection)

SetLeapSecondDirection(t, negative) ==
    IF negative THEN Or64(t, LeapSecondDirection)
    ELSE And64(t, Not64(LeapSecondDirection))

IsNegativeLeapSecond(t) ==
    IsLeapSecond(t) /\ And64(t, LeapSecondDirection) # Zero64

\* Bound: how far the Ticks values in use lie from the values they are
\* taken around.
MaxTickOffset == 1

\* The last Ticks value whose Unix nanoseconds fit in 64 bits.
LastInUnixNs == Add64(UnixBaseOffset, DivSmall(Not64(Zero64), 100))

\* The Ticks value of 2021-09-11 15:10:43.2643641 UTC.
SampleTicks == Decimal(<< 637, 669, 698, 432, 643, 641 >>)

\* The Ticks values in use: around the least and the largest value, the Unix
\* epoch, the last value within the range of Unix nanoseconds and a present
\* time.
TickValues ==
    UNION { { Add64(a, Small64(k)), Sub64(a, Small64(k)) } :
              a \in { MinTicks, MaxTicks, UnixBaseOffset, LastInUnixNs,
                      SampleTicks },
              k \in 0 .. MaxTickOffset }

\* The Unix nanoseconds in use: the epoch, 2021-09-11 14:46:39.3391278 UTC
\* and the largest uint64.
NsValues ==
    { Zero64, Decimal(<< 1, 631, 371, 599, 339, 127, 800 >>), Not64(Zero64) }

InitTicks ==
    /\ Is(Fresh)
    /\ IdleSet
    /\ IdleRow
    /\ IdlePoints
    /\ ticks \in TickValues
    /\ conv = NoConv

\* A call on the Ticks value: it is t afterwards.
Called(op, t, arg, negative, ret, flag) ==
    /\ ticks' = t
    /\ conv' = [ op |-> op, prev |-> conv.op, before |-> ticks, arg |-> arg,
                 negative |-> negative, ret |-> ret, flag |-> flag ]
    /\ UNCHANGED << coderVars, setVars, rowVars, pointVars >>

DoSetLeapSecond ==
    Called("SetLeapSecond", SetLeapSecond(ticks), Zero64, FALSE, Zero64, FALSE)

DoSetLeapSecondDirection(negative) ==
    Called("SetLeapSecondDirection", SetLeapSecondDirection(ticks, negative),
           Zero64, negative, Zero64, FALSE)

DoIsNegativeLeapSecond ==
    Called("IsNegativeLeapSecond", ticks, Zero64, FALSE, Zero64,
           IsNegativeLeapSecond(ticks))

DoTimestampValue ==
    Called("TimestampValue", ticks, Zero64, FALSE, TimestampValue(ticks), FALSE)

DoToUnixNs == Called("ToUnixNs", ticks, Zero64, FALSE, ToUnixNs(ticks), FALSE)

DoToTime == Called("ToTime", ticks, Zero64, FALSE, ToTime(ticks), FALSE)

\* FromUnixNs makes a new Ticks value.
DoFromUnixNs(ns) ==
    Called("FromUnixNs", FromUnixNs(ns), ns, FALSE, FromUnixNs(ns), FALSE)

NextTicks ==
    \/ DoSetLeapSecond
    \/ \E negative \in BOOLEAN : DoSetLeapSecondDirection(negative)
    \/ DoIsNegativeLeapSecond
    \/ DoTimestampValue
    \/ DoToUnixNs
    \/ DoToTime
    \/ \E ns \in NsValues : DoFromUnixNs(ns)

SpecTicks == InitTicks /\ [][NextTicks]_vars

\* C23 (leap-second bits): LeapSecondFlag is bit 63, LeapSecondDirection is
\* bit 62 and ValueMask is the low 62 bits, pairwise disjoint and together
\* all 64 bits; SetLeapSecond and SetLeapSecondDirection never change
\* TimestampValue; after SetLeapSecond followed by SetLeapSecondDirection(d),
\* IsLeapSecond is true and IsNegativeLeapSecond equals d.
LeapSecondBits ==
    /\ LeapSecondFlag = << 0, 0, 0, 32768 >>
    /\ LeapSecondDirection = << 0, 0, 0, 16384 >>
    /\ ValueMask = << 65535, 65535, 65535, 16383 >>
    /\ And64(LeapSecondFlag, LeapSecondDirection) = Zero64
    /\ And64(LeapSecondFlag, ValueMask) = Zero64
    /\ And64(LeapSecondDirection, ValueMask) = Zero64
    /\ Or64(Or64(LeapSecondFlag, LeapSecondDirection), ValueMask) = Not64(Zero64)
    /\ conv.op \in { "SetLeapSecond", "SetLeapSecondDirection" }
         => TimestampValue(ticks) = TimestampValue(conv.before)
    /\ (conv.op = "SetLeapSecondDirection" /\ conv.prev = "SetLeapSecond")
         => /\ IsLeapSecond(ticks)
            /\ IsNegativeLeapSecond(ticks) <=> conv.negative

\* SetLeapSecondDirection(false) has cleared the direction bit of a value
\* that SetLeapSecond had just flagged.
LeapSecondBitsWitness ==
    /\ conv.op = "SetLeapSecondDirection"
    /\ conv.prev = "SetLeapSecond"
    /\ ~ conv.negative
    /\ IsNegativeLeapSecond(conv.before)
    /\ ~ IsNegativeLeapSecond(ticks)
    /\ TimestampValue(ticks) = SampleTicks

\* The value t with both leap-second bits cleared.
Cleared(t) == And64(t, ValueMask)

\* C24 (leap seconds discarded on conversion): for every Ticks value and
\* every combination of the two leap-second bits, ToUnixNs and ToTime give
\* the same result as for the value with both bits cleared.
LeapSecondsDiscarded ==
    /\ ToUnixNs(ticks) = ToUnixNs(Cleared(ticks))
    /\ ToTime(ticks) = ToTime(Cleared(ticks))
    /\ conv.op = "ToUnixNs" => conv.ret = ToUnixNs(Cleared(conv.before))
    /\ conv.op = "ToTime" => conv.ret = ToTime(Cleared(conv.before))

\* ToUnixNs has converted a present time with only the direction bit set.
LeapSecondsDiscardedWitness ==
    /\ conv.op = "ToUnixNs"
    /\ ~ IsLeapSecond(conv.before)
    /\ And64(conv.before, LeapSecondDirection) # Zero64
    /\ Cleared(conv.before) = SampleTicks
    /\ conv.ret = Decimal(<< 1, 631, 373, 043, 264, 364, 100 >>)

\* C25 (Ticks/Unix round trip): FromUnixNs(0) equals UnixBaseOffset and
\* UnixBaseOffset converts to Unix time 0; for every Ticks value t in
\* Min..Max with both leap-second bits clear, FromUnixNs(t.ToUnixNs())
\* equals t.
UnixRoundTrip ==
    /\ FromUnixNs(Zero64) = UnixBaseOffset
    /\ ToUnixNs(UnixBaseOffset) = Zero64
    /\ ( /\ conv.op = "ToUnixNs"
         /\ Cleared(conv.before) = conv.before
         /\ Le64(MinTicks, conv.before)
         /\ Le64(conv.before, MaxTicks) )
       => FromUnixNs(conv.ret) = conv.before

\* Within the range of Unix nanoseconds, from UnixBaseOffset to
\* LastInUnixNs, the round trip through ToUnixNs and FromUnixNs gives the
\* value back.
UnixRoundTripWithinUnixNs ==
    ( /\ conv.op = "ToUnixNs"
      /\ Le64(UnixBaseOffset, Cleared(conv.before))
      /\ Le64(Cleared(conv.before), LastInUnixNs) )
    => FromUnixNs(conv.ret) = Cleared(conv.before)

(***************************************************************************)
(* Properties of the steady state                                          *)
(***************************************************************************)
\* The symbols that occur in a histogram.
Occurring(stats) == { i \in CodeWords : stats[i] > 0 }

\* pm is in mode 3 with the two symbols of S in its hot slots, and coding
\* each of them once takes three bits.
TwoSymbolMode(pm, S) ==
    /\ pm.mode = 3
    /\ { pm.mode31, pm.mode301 } = S
    /\ Len(WriteCodeBits(pm, pm.mode31)) + Len(WriteCodeBits(pm, pm.mode301)) = 3

\* The adaptation the coder with history h has just made was over a window
\* of two distinct symbols.
TwoSymbolWindow(h) ==
    /\ h.adapted
    /\ Cardinality(Occurring(h.statsIn)) = 2

\* C26 (steady-state cost): when every symbol of an adaptation window is one
\* of two distinct symbols A and B, each occurring at least once, the
\* adaptation selects mode 3 with hot slots A and B, so that coding one A and
\* one B takes 3 bits, and so again after every later adaptation; a symbol
\* written in that mode puts 1 or 2 bits on the stream.
SteadyCost ==
    /\ TwoSymbolWindow(encHist) => TwoSymbolMode(enc, Occurring(encHist.statsIn))
    /\ TwoSymbolWindow(decHist) => TwoSymbolMode(dec, Occurring(decHist.statsIn))
    /\ ( /\ WrittenUnadapted
         /\ enc.mode = 3
         /\ Head(pending).code \in { enc.mode31, enc.mode301 } )
       => Len(stream) = IF Head(pending).code = enc.mode31 THEN 1 ELSE 2

\* The fourth adaptation, in the steady state, over a window in which
\* TimeDelta1Forward and Value1 both occur, and the symbol after it written
\* in 2 bits.
SteadyCostWitness ==
    /\ encHist.n = Due3 + Threshold2 + 2
    /\ enc.adaptCalls = 4
    /\ TwoSymbolMode(enc, { TimeDelta1Forward, Value1 })
    /\ WrittenUnadapted
    /\ Len(stream) = 2

(***************************************************************************)
(* Properties of the histogram                                             *)
(***************************************************************************)
\* The largest value commandsSentSinceLastChange has between two symbols.
CounterBound(pm) ==
    IF pm.startupMode = 0 THEN 5 ELSE IF pm.startupMode = 1 THEN 20 ELSE 100

\* The histogram of pm adds up to its counter, the counter is within its
\* bound, and no entry exceeds 101 or wraps around when the next symbol is
\* counted.
HistogramOf(pm) ==
    /\ Total(pm.commandStats) = pm.commandsSentSinceLastChange
    /\ pm.commandsSentSinceLastChange <= CounterBound(pm)
    /\ \A S \in CodeWords :
         /\ pm.commandStats[S] + 1 <= 101
         /\ countCode(pm, S).commandStats[S] = pm.commandStats[S] + 1

\* C29 (histogram and counter): in every reachable state between coded
\* symbols the sum of commandStats[0..31] equals
\* commandsSentSinceLastChange; the counter is at most 5 when startupMode is
\* 0, at most 20 when it is 1 and at most 100 otherwise; no commandStats
\* entry exceeds 101 and the byte-wide entries never wrap around.
HistogramConsistent ==
    /\ HistogramOf(enc)
    /\ HistogramOf(dec)

\* In the steady state the decoder has counted 100 symbols since its last
\* adaptation, all of them the same.
HistogramConsistentWitness ==
    /\ dec.startupMode = 2
    /\ dec.adaptCalls = 3
    /\ dec.commandsSentSinceLastChange = 100
    /\ dec.commandStats[Value1] = 100

(***************************************************************************)
(* Properties of the decoded symbols                                       *)
(***************************************************************************)
\* The six hot-slot fields of pm hold code words.
HotSlotsInAlphabet(pm) ==
    /\ pm.mode21 \in 0 .. 31
    /\ pm.mode31 \in 0 .. 31
    /\ pm.mode301 \in 0 .. 31
    /\ pm.mode41 \in 0 .. 31
    /\ pm.mode401 \in 0 .. 31
    /\ pm.mode4001 \in 0 .. 31

\* Every input of as many bits as ReadCode consumes at most for one symbol
\* in the mode of pm: the prefix of the mode, then the five bits of readBits5.
InputBits(pm) == [ 1 .. pm.mode + 4 -> { 0, 1 } ]

\* C30 (decoded symbols stay in the alphabet): in every reachable state all
\* six hot-slot fields hold values in 0..31, so for every input bit
\* sequence, also one no encoder wrote, ReadCode returns a code in 0..31,
\* which is an index of commandStats.
DecodedInAlphabet ==
    /\ HotSlotsInAlphabet(enc)
    /\ HotSlotsInAlphabet(dec)
    /\ lastRead.code \in 0 .. 31
    /\ \A s \in InputBits(dec) :
         LET r == ReadCodeBits(dec, s)
         IN  r.ok /\ r.val \in 0 .. 31 /\ r.val \in DOMAIN dec.commandStats

\* The decoder has read, in fewer than eight bits, a symbol that the initial
\* mode 4 spells in eight: an earlier adaptation had installed the mode it was
\* read in.  The symbol made the decoder adapt again, to mode 4 with two hot
\* slots other than the initial ones.
DecodedInAlphabetWitness ==
    /\ decHist.adapted
    /\ dec.adaptCalls >= 2
    /\ lastRead.n = decHist.n
    /\ lastRead.code \notin { Value1, Value2, Value3 }
    /\ lastRead.bits < 8
    /\ dec.mode = 4
    /\ { dec.mode401, dec.mode4001 } \cap { Value1, Value2, Value3 } = {}

(***************************************************************************)
(* Several points: one pointMetadata each                                  *)
(***************************************************************************)
\* the points of the connection
NumPoints == 2
\* symbols coded over all the points together
MaxPointSymbols == 8

PointIDs == 1 .. NumPoints

\* The six Prev fields of a pointMetadata.
PrevOf(pm) ==
    << pm.PrevNextPointID1, pm.PrevStateFlags1, pm.PrevStateFlags2,
       pm.PrevValue1, pm.PrevValue2, pm.PrevValue3 >>

\* The Prev fields are exported: the owner of the pointMetadata stores in
\* them the successor of the point, its last state flags and its last values.
\* Two samples per point, different from the zero values and from the samples
\* of the other points.
PrevSample(id, k) ==
    [ PrevNextPointID1 |-> (id % NumPoints) + 1,
      PrevStateFlags1  |-> k,
      PrevStateFlags2  |-> k + 1,
      PrevValue1       |-> 100 * id + k,
      PrevValue2       |-> 100 * id + k + 1,
      PrevValue3       |-> 100 * id + k + 2 ]

WithPrev(pm, p) ==
    [ pm EXCEPT !.PrevNextPointID1 = p.PrevNextPointID1,
                !.PrevStateFlags1 = p.PrevStateFlags1,
                !.PrevStateFlags2 = p.PrevStateFlags2,
                !.PrevValue1 = p.PrevValue1,
                !.PrevValue2 = p.PrevValue2,
                !.PrevValue3 = p.PrevValue3 ]

\* Every point has a pointMetadata whose coder is as newPointMetadata left it
\* and whose Prev fields hold one of the samples.
InitPoints ==
    /\ Is(Fresh)
    /\ IdleSet
    /\ IdleRow
    /\ IdleTicks
    /\ \E k \in [ PointIDs -> { 0, 1 } ] :
           points = [ id \in PointIDs |->
                        WithPrev(newPointMetadata, PrevSample(id, k[id])) ]
    /\ touched = NoTouch

\* A call made on the pointMetadata of point id, which leaves it as pm.
Touches(op, id, code, pm) ==
    /\ points[id].panic = ""
    /\ touched.n < MaxPointSymbols
    /\ points' = [ points EXCEPT ![id] = pm ]
    /\ touched' = [ op |-> op, id |-> id, code |-> code, before |-> points,
                    n |-> touched.n + 1 ]
    /\ UNCHANGED << coderVars, setVars, rowVars, tickVars >>

\* points[id].WriteCode(code) on the sending side.
PointWriteCode(id, code) ==
    Touches("WriteCode", id, code, WriteCode(points[id], code))

\* points[id].ReadCode() on the receiving side, the stream holding the bits
\* of code as the sender's pointMetadata, in the same state, spelled them.
PointReadCode(id, code) ==
    Touches("ReadCode", id, code,
            ReadCode(points[id], WriteCodeBits(points[id], code)))

NextPoints ==
    \/ \E id \in PointIDs, code \in LongCodes : PointWriteCode(id, code)
    \/ \E id \in PointIDs, code \in LongCodes : PointReadCode(id, code)

SpecPoints == InitPoints /\ [][NextPoints]_vars

\* C27: coding a symbol through the pointMetadata of one point, with any
\* adaptation it triggers, leaves the six Prev fields of that pointMetadata
\* as they were, and leaves the pointMetadata of every other point as it was,
\* field by field: only the mode, the hot slots, the histogram, its counter
\* and the startup mode of the point that was coded can differ.
PointIndependence ==
    touched.op # "" =>
        /\ PrevOf(points[touched.id]) = PrevOf(touched.before[touched.id])
        /\ \A j \in PointIDs \ { touched.id } :
               points[j] = touched.before[j]

\* A symbol written through one point made its coder adapt and leave mode 4,
\* while another point was in the middle of its own window.
PointIndependenceWitness ==
    /\ touched.op = "WriteCode"
    /\ points[touched.id].adaptCalls
           > touched.before[touched.id].adaptCalls
    /\ points[touched.id].mode # touched.before[touched.id].mode
    /\ \E j \in PointIDs \ { touched.id } :
           /\ points[j].commandsSentSinceLastChange > 0
           /\ points[j].PrevValue1 # points[touched.id].PrevValue1

====
